---- MODULE Spec2Model ----
\* The process watchdog of utils/watchdog.py: the polling engine (WatchdogWindows),
\* the timer-driven engine (WatchdogPosix) and the factory new_watchdog.
\*
\* Time is counted in ticks of 1/20 second, so that the polling engine's sleep of
\* duration/20 seconds is a whole number of ticks for every whole duration.
\* Code runs in zero time: the clock advances only while the owner is between
\* two reset() calls and the polling thread sleeps, and never past a pending
\* alarm or the polling thread's wake-up time.
EXTENDS Integers, Sequences, FiniteSets, TLC

VARIABLES
    platform,              \* Platform.is_windows(): "windows" or "posix"
    duration,              \* argument duration, in ticks (may be a fraction of a second)
    max_mem_mb,            \* argument max_mem_mb, None when omitted
    max_resets,            \* argument max_resets, None when omitted
    intDivision,           \* TRUE where int / int floors (Python 2), FALSE where it is true division
    pc,                    \* position of the owning (main) thread
    exception,             \* exception raised out of new_watchdog, "none" when there is none
    engine,                \* class of the constructed watchdog: "none", "windows", "posix"
    _duration,             \* self._duration, whole seconds
    tlock,                 \* owner of self.tlock: "free", "main", "watch"
    expire_at,             \* self.expire_at, in ticks; Unset before the first write
    watchPc,               \* position of the polling thread
    tnow,                  \* time.time() as read by the polling thread for its comparison
    wake,                  \* tick at which the polling thread's sleep returns
    sigHandler,            \* handler installed for SIGALRM
    memory_limit_enabled,  \* self.memory_limit_enabled
    _max_mem_kb,           \* self._max_mem_kb
    rlimit_as,             \* RLIMIT_AS (soft = hard), in bytes, None when not set
    _restarts,             \* self._restarts, oldest first
    _max_resets,           \* self._max_resets
    alarmAt,               \* tick at which the pending alarm expires, NoAlarm when none is pending
    destructPc,            \* position inside destruct / self_destruct: "idle", "try", "finally", "done"
    cause,                 \* which check called destruct: "none", "deadline", "memory", "frenetic"
    alive,                 \* FALSE once the kill of the current process has been issued
    logFailed,             \* TRUE when the logging inside destruct raised
    now,                   \* the clock, in ticks
    jumps,                 \* number of clock advances taken under the timer-driven engine
    posixInits,            \* number of times WatchdogPosix.__init__ has been entered
    resets,                \* number of reset() calls made by the owner
    lastReturn,            \* tick at which the constructor or the last reset() call was made
    lateArg,               \* TRUE once the time since lastReturn has reached duration, as passed
    lateInt,               \* TRUE once the time since lastReturn has reached self._duration
    resetLog,              \* ticks of the owner's reset() calls on the timer-driven engine, oldest first
    lastMem,               \* resident kB observed by the last memory check, None when none ran
    access                 \* last access to expire_at: who, and whether it held tlock

vars == << platform, duration, max_mem_mb, max_resets, intDivision, pc, exception, engine,
           _duration, tlock, expire_at, watchPc, tnow, wake, sigHandler,
           memory_limit_enabled, _max_mem_kb, rlimit_as, _restarts, _max_resets, alarmAt,
           destructPc, cause, alive, logFailed, now, jumps, posixInits, resets, lastReturn,
           lateArg, lateInt, resetLog, lastMem, access >>

argVars   == << platform, duration, max_mem_mb, max_resets, intDivision >>
winVars   == << tlock, expire_at, watchPc, tnow, wake >>
posixVars == << sigHandler, memory_limit_enabled, _max_mem_kb, rlimit_as, _restarts,
                _max_resets, alarmAt >>
killVars  == << destructPc, cause, alive, logFailed >>
ghostVars == << resets, lastReturn, lateArg, lateInt, resetLog, lastMem >>

-----------------------------------------------------------------------------
\* Bounds and input sets.

MaxTime  == 44   \* last tick the clock reaches under the polling engine
MaxJumps == 3    \* clock advances explored under the timer-driven engine
MaxCalls == 3    \* reset() calls made by the owner
MaxInits == 2    \* calls of new_watchdog made by the owner off Windows

None    == -1    \* Python's None, for the optional arguments and fields
Unset   == -1    \* an attribute not yet assigned
NoAlarm == -1    \* no alarm pending

PollDivisor == 20
TicksPerSecond == PollDivisor
_RESTART_TIMEFRAME == 60

Ticks(seconds) == seconds * TicksPerSecond

\* Durations passed to new_watchdog, in ticks: 0.5 s, 1 s, 1.5 s, 2 s.
Durations == {10, 20, 30, 40}
\* Memory ceilings passed to new_watchdog, in MB.
MaxMemMbs == {None, 25}
\* Reset caps passed to new_watchdog.
MaxResetsArgs == {None, 0, 1, 2}
\* The optional arguments enumerated together with the Windows platform.
WindowsOptionalArgs == {<< None, None >>, << 25, 1 >>}
\* Resident sizes the process-status query may report, in kB:
\* 94 %, exactly 95 %, one kB above 95 %, and 96 % of 25 MB.
MemUsagesKb == {24064, 24320, 24321, 24576}
\* Amounts by which the clock advances in one step: a tick, a second, half the
\* timeframe, the timeframe.
Jumps == {1, Ticks(1), Ticks(_RESTART_TIMEFRAME) \div 2, Ticks(_RESTART_TIMEFRAME)}

Max(a, b) == IF a >= b THEN a ELSE b

-----------------------------------------------------------------------------
\* Pure helpers.

\* int(duration): truncation to whole seconds.
IntOf(d) == d \div TicksPerSecond

\* Mutant of ExpireAt: the duration is left out of the deadline.
ExpireAtNoDuration(t, d) == t

\* time.time() + self._duration
ExpireAt(t, d) == t + Ticks(d)

\* Mutant of SleepTicks: the sleep is duration/2.
SleepTicksHalved(d, floors) == Ticks(d) \div 2

\* self._duration/20, in ticks: floored to whole seconds where int / int floors.
SleepTicks(d, floors) ==
    IF floors THEN Ticks(d \div PollDivisor) ELSE Ticks(d) \div PollDivisor

\* time.sleep(t): a sleep shorter than one tick returns by the next tick.
SleepUntil(t, period) == t + Max(period, 1)

\* Mutant of Expired: >= in place of >.
ExpiredOrEqual(t, deadline) == t >= deadline

\* time.time() > self.expire_at
Expired(t, deadline) == t > deadline

-----------------------------------------------------------------------------
\* The state before new_watchdog is called.

NoEngine ==
    /\ pc = "start"
    /\ exception = "none"
    /\ engine = "none"
    /\ _duration = Unset
    /\ tlock = "free"
    /\ expire_at = Unset
    /\ watchPc = "unstarted"
    /\ tnow = 0
    /\ wake = 0
    /\ sigHandler = "SIG_DFL"
    /\ memory_limit_enabled = FALSE
    /\ _max_mem_kb = Unset
    /\ rlimit_as = None
    /\ _restarts = << >>
    /\ _max_resets = None
    /\ alarmAt = NoAlarm

Fresh ==
    /\ destructPc = "idle"
    /\ cause = "none"
    /\ alive = TRUE
    /\ logFailed = FALSE
    /\ now = 0
    /\ jumps = 0
    /\ posixInits = 0
    /\ resets = 0
    /\ lastReturn = 0
    /\ lateArg = FALSE
    /\ lateInt = FALSE
    /\ resetLog = << >>
    /\ lastMem = None
    /\ access = [by |-> "none", locked |-> TRUE]

Args ==
    /\ duration \in Durations
    /\ max_mem_mb \in MaxMemMbs
    /\ max_resets \in MaxResetsArgs
    /\ intDivision \in BOOLEAN

\* The program at start-up: new_watchdog has not been called yet. On Windows the
\* optional arguments are enumerated as a pair (both omitted, or both given).
Init ==
    /\ platform \in {"windows", "posix"}
    /\ Args
    /\ platform = "windows" => << max_mem_mb, max_resets >> \in WindowsOptionalArgs
    /\ NoEngine
    /\ Fresh

-----------------------------------------------------------------------------
\* new_watchdog on Windows: WatchdogWindows(duration).

\* WatchdogWindows.__init__ up to and including its call of self.reset().
WindowsInit ==
    /\ pc = "start"
    /\ platform = "windows"
    /\ _duration' = IntOf(duration)
    /\ tlock' = "free"
    /\ expire_at' = ExpireAt(now, IntOf(duration))
    /\ access' = [by |-> "main", locked |-> TRUE]
    /\ pc' = "start_thread"
    /\ lastReturn' = now
    /\ UNCHANGED << argVars, posixInits, exception, engine, watchPc, tnow, wake, posixVars, killVars,
                    now, jumps, resets, lateArg, lateInt, resetLog, lastMem >>

\* self.start(): the polling thread begins run() -> watch(); new_watchdog returns.
WindowsStart ==
    /\ pc = "start_thread"
    /\ watchPc' = "check_time"
    /\ engine' = "windows"
    /\ pc' = "idle"
    /\ UNCHANGED << argVars, posixInits, exception, _duration, tlock, expire_at, tnow, wake, posixVars,
                    killVars, now, jumps, ghostVars, access >>

\* WatchdogWindows.reset, the owner's call: log.debug and "with self.tlock:" entered.
WinResetAcquire ==
    /\ alive
    /\ engine = "windows"
    /\ pc = "idle"
    /\ resets < MaxCalls
    /\ tlock = "free"
    /\ tlock' = "main"
    /\ pc' = "reset_locked"
    /\ resets' = resets + 1
    /\ UNCHANGED << argVars, posixInits, exception, engine, _duration, expire_at, watchPc, tnow, wake,
                    posixVars, killVars, now, jumps, lastReturn, lateArg, lateInt, resetLog,
                    lastMem, access >>

\* self.expire_at = time.time() + self._duration
WinResetWrite ==
    /\ alive
    /\ pc = "reset_locked"
    /\ expire_at' = ExpireAt(now, _duration)
    /\ access' = [by |-> "main", locked |-> (tlock = "main")]
    /\ pc' = "reset_written"
    /\ UNCHANGED << argVars, posixInits, exception, engine, _duration, tlock, watchPc, tnow, wake,
                    posixVars, killVars, now, jumps, ghostVars >>

\* Leaving the with block releases the lock; reset() returns.
WinResetRelease ==
    /\ alive
    /\ pc = "reset_written"
    /\ tlock' = "free"
    /\ pc' = "idle"
    /\ lastReturn' = now
    /\ UNCHANGED << argVars, posixInits, exception, engine, _duration, expire_at, watchPc, tnow, wake,
                    posixVars, killVars, now, jumps, resets, lateArg, lateInt, resetLog,
                    lastMem, access >>

\* watch(): time.time() is evaluated, the left operand of the comparison.
WatchReadTime ==
    /\ alive
    /\ watchPc = "check_time"
    /\ tnow' = now
    /\ watchPc' = "check_deadline"
    /\ UNCHANGED << argVars, posixInits, pc, exception, engine, _duration, tlock, expire_at, wake,
                    posixVars, killVars, now, jumps, ghostVars, access >>

\* watch(): self.expire_at is read and compared; destruct() is entered or the sleep begins.
WatchCompare ==
    /\ alive
    /\ watchPc = "check_deadline"
    /\ access' = [by |-> "watch", locked |-> (tlock = "watch")]
    /\ IF Expired(tnow, expire_at)
       THEN /\ watchPc' = "destruct"
            /\ destructPc' = "try"
            /\ cause' = "deadline"
            /\ wake' = wake
       ELSE /\ watchPc' = "sleep"
            /\ wake' = SleepUntil(now, SleepTicks(_duration, intDivision))
            /\ UNCHANGED << destructPc, cause >>
    /\ UNCHANGED << argVars, posixInits, pc, exception, engine, _duration, tlock, expire_at, tnow,
                    posixVars, alive, logFailed, now, jumps, ghostVars >>

\* watch(): time.sleep returns and the loop starts over.
WatchWake ==
    /\ alive
    /\ watchPc = "sleep"
    /\ now >= wake
    /\ watchPc' = "check_time"
    /\ UNCHANGED << argVars, posixInits, pc, exception, engine, _duration, tlock, expire_at, tnow, wake,
                    posixVars, killVars, now, jumps, ghostVars, access >>

-----------------------------------------------------------------------------
\* destruct (WatchdogWindows) and self_destruct (WatchdogPosix): try / finally.

\* The try block: the two log.error calls return, or one of them raises.
DestructLog ==
    /\ alive
    /\ destructPc = "try"
    /\ \E raised \in BOOLEAN : logFailed' = raised
    /\ destructPc' = "finally"
    /\ UNCHANGED << argVars, posixInits, pc, exception, engine, _duration, winVars, posixVars, cause,
                    alive, now, jumps, ghostVars, access >>

\* Mutant of KillIssued: the kill follows the logging inside the try block.
KillUnlessLogRaised(logRaised) == ~logRaised

\* What the finally block does to the process: the kill is issued.
KillIssued(logRaised) == TRUE

\* The finally block: psutil.Process().kill() / os.kill(os.getpid(), signal.SIGKILL).
DestructKill ==
    /\ alive
    /\ destructPc = "finally"
    /\ alive' = ~KillIssued(logFailed)
    /\ destructPc' = "done"
    /\ UNCHANGED << argVars, posixInits, pc, exception, engine, _duration, winVars, posixVars, cause,
                    logFailed, now, jumps, ghostVars, access >>

-----------------------------------------------------------------------------
\* WatchdogPosix: the fields __init__ assigns, reset(), and the alarm.

\* "if x:" for an optional integer: None and 0 are false.
Truthy(x) == x # None /\ x # 0

\* self._max_mem_kb = 1024 * max_mem_mb
MaxMemKb(mb) == 1024 * mb

\* Mutant of MaxMemBytes: the kilobytes are passed on as bytes.
MaxMemBytesUnconverted(kb) == kb

\* max_mem_bytes = 1024 * self._max_mem_kb
MaxMemBytes(kb) == 1024 * kb

\* The assignments of WatchdogPosix.__init__, as a record of the fields and of the
\* resource limit they leave; __init__ arms no alarm.
PosixFields(d, mb, cap) ==
    [ _duration            |-> IntOf(d),
      memory_limit_enabled |-> (mb # None),
      _max_mem_kb          |-> IF mb # None THEN MaxMemKb(mb) ELSE Unset,
      rlimit_as            |-> IF mb # None THEN MaxMemBytes(MaxMemKb(mb)) ELSE None,
      _restarts            |-> << >>,
      _max_resets          |-> cap,
      alarmAt              |-> NoAlarm ]

-----------------------------------------------------------------------------
\* new_watchdog elsewhere: WatchdogPosix(duration, max_mem_mb, max_resets).

\* Attributes of class Watchdog.
WatchdogAttrs == {"destruct", "reset", "watch"}

\* Evaluating Watchdog.<name>: the attribute, or AttributeError.
Lookup(name) == IF name \in WatchdogAttrs THEN name ELSE "AttributeError"

\* WatchdogPosix.__init__: self._duration is set, then the argument of signal.signal,
\* Watchdog.self_destruct, is evaluated. When the lookup raises, the exception leaves
\* __init__ and new_watchdog: no object is returned and no handler is installed.
\* An owner that catches the exception may call new_watchdog again.
PosixInit ==
    /\ pc \in {"start", "raised"}
    /\ platform = "posix"
    /\ posixInits < MaxInits
    /\ posixInits' = posixInits + 1
    /\ IF Lookup("self_destruct") = "AttributeError"
       THEN /\ _duration' = IntOf(duration)
            /\ exception' = "AttributeError"
            /\ pc' = "raised"
            /\ UNCHANGED << engine, posixVars >>
       ELSE /\ exception' = "none"
            /\ pc' = "idle"
            /\ engine' = "posix"
            /\ sigHandler' = Lookup("self_destruct")
            /\ LET f == PosixFields(duration, max_mem_mb, max_resets) IN
                /\ _duration' = f._duration
                /\ memory_limit_enabled' = f.memory_limit_enabled
                /\ _max_mem_kb' = f._max_mem_kb
                /\ rlimit_as' = f.rlimit_as
                /\ _restarts' = f._restarts
                /\ _max_resets' = f._max_resets
                /\ alarmAt' = f.alarmAt
    /\ UNCHANGED << argVars, winVars, killVars, now, jumps, ghostVars, access >>

-----------------------------------------------------------------------------
\* WatchdogPosix.reset and the alarm.

\* Mutant of MemoryExceeded: >= in place of >.
MemoryExceededOrEqual(kb, max_kb) == 100 * kb >= 95 * max_kb

\* mem_usage_kb > (0.95 * self._max_mem_kb), in whole numbers
MemoryExceeded(kb, max_kb) == 100 * kb > 95 * max_kb

\* Mutant of Flush: nothing is ever evicted.
FlushNothing(q, t) == q

\* Mutant of Flush: an entry exactly the timeframe old is evicted too.
RECURSIVE FlushInclusive(_, _)
FlushInclusive(q, t) ==
    IF q # << >> /\ Head(q) <= t - Ticks(_RESTART_TIMEFRAME)
    THEN FlushInclusive(Tail(q), t)
    ELSE q

\* The loop of _is_frenetic: entries older than the timeframe leave from the left.
RECURSIVE Flush(_, _)
Flush(q, t) ==
    IF q # << >> /\ Head(q) < t - Ticks(_RESTART_TIMEFRAME)
    THEN Flush(Tail(q), t)
    ELSE q

\* Mutant of TooMany: >= in place of >.
TooManyOrEqual(q, cap) == Len(q) >= cap

\* return len(self._restarts) > self._max_resets
TooMany(q, cap) == Len(q) > cap

\* Mutant of Alarm: the alarm is cancelled and never armed.
AlarmCancelled(t, seconds) == NoAlarm

\* Mutant of Alarm: alarm(0) arms an alarm that is due at once.
AlarmArmsZero(t, seconds) == t + Ticks(seconds)

\* signal.alarm(seconds): 0 cancels the pending alarm and arms none.
Alarm(t, seconds) == IF seconds = 0 THEN NoAlarm ELSE t + Ticks(seconds)

\* An instance of WatchdogPosix holding what __init__ assigns, with self_destruct as
\* the SIGALRM handler: the state reset() and the alarm are analysed from.
InitPosix ==
    /\ platform = "posix"
    /\ Args
    /\ pc = "idle"
    /\ exception = "none"
    /\ engine = "posix"
    /\ sigHandler = "self_destruct"
    /\ LET f == PosixFields(duration, max_mem_mb, max_resets) IN
        /\ _duration = f._duration
        /\ memory_limit_enabled = f.memory_limit_enabled
        /\ _max_mem_kb = f._max_mem_kb
        /\ rlimit_as = f.rlimit_as
        /\ _restarts = f._restarts
        /\ _max_resets = f._max_resets
        /\ alarmAt = f.alarmAt
    /\ tlock = "free"
    /\ expire_at = Unset
    /\ watchPc = "unstarted"
    /\ tnow = 0
    /\ wake = 0
    /\ Fresh

\* Mutant of ResetMemoryBreach: the breach is noted and reset() goes on to re-arm.
ResetMemoryBreachRearms(kb) ==
    /\ memory_limit_enabled
    /\ MemoryExceeded(kb, _max_mem_kb)
    /\ cause' = "memory"
    /\ destructPc' = "try"
    /\ pc' = "destruct"
    /\ _restarts' = Append(_restarts, now)
    /\ alarmAt' = IF _duration = 0 THEN NoAlarm ELSE now + Ticks(_duration)

\* WatchdogPosix.reset, a memory breach: destruct() is entered at line 138.
ResetMemoryBreach(kb) ==
    /\ memory_limit_enabled
    /\ MemoryExceeded(kb, _max_mem_kb)
    /\ cause' = "memory"
    /\ destructPc' = "try"
    /\ pc' = "destruct"
    /\ UNCHANGED << _restarts, alarmAt >>

\* WatchdogPosix.reset past the memory check: the activity check, then the alarm.
ResetActivityAndAlarm ==
    LET appended == Append(_restarts, now)
        flushed  == Flush(appended, now)
    IN  IF Truthy(_max_resets)
        THEN /\ _restarts' = flushed
             /\ IF TooMany(flushed, _max_resets)
                THEN /\ cause' = "frenetic"
                     /\ destructPc' = "try"
                     /\ pc' = "destruct"
                     /\ alarmAt' = alarmAt
                ELSE /\ alarmAt' = Alarm(now, _duration)
                     /\ UNCHANGED << cause, destructPc, pc >>
        ELSE /\ alarmAt' = Alarm(now, _duration)
             /\ UNCHANGED << _restarts, cause, destructPc, pc >>

\* WatchdogPosix.reset, called by the owner.
PosixReset ==
    /\ alive
    /\ engine = "posix"
    /\ pc = "idle"
    /\ destructPc = "idle"
    /\ resets < MaxCalls
    /\ resets' = resets + 1
    /\ resetLog' = Append(resetLog, now)
    /\ lastReturn' = now
    /\ \E kb \in MemUsagesKb :
        /\ lastMem' = IF memory_limit_enabled THEN kb ELSE lastMem
        /\ \/ ResetMemoryBreach(kb)
           \/ /\ ~(memory_limit_enabled /\ MemoryExceeded(kb, _max_mem_kb))
              /\ ResetActivityAndAlarm
    /\ UNCHANGED << argVars, posixInits, exception, engine, _duration, winVars, sigHandler,
                    memory_limit_enabled, _max_mem_kb, rlimit_as, _max_resets, alive,
                    logFailed, now, jumps, lateArg, lateInt, access >>

\* The pending alarm expires: SIGALRM is delivered and the installed handler,
\* self_destruct, is entered.
AlarmFire ==
    /\ alive
    /\ engine = "posix"
    /\ destructPc = "idle"
    /\ alarmAt # NoAlarm
    /\ now >= alarmAt
    /\ sigHandler = "self_destruct"
    /\ alarmAt' = NoAlarm
    /\ cause' = "deadline"
    /\ destructPc' = "try"
    /\ pc' = "destruct"
    /\ UNCHANGED << argVars, posixInits, exception, engine, _duration, winVars, sigHandler,
                    memory_limit_enabled, _max_mem_kb, rlimit_as, _restarts, _max_resets,
                    alive, logFailed, now, jumps, ghostVars, access >>

-----------------------------------------------------------------------------
\* The clock.

\* The polling thread sleeps and its wake-up time is not passed.
WindowsMayWait(dt) ==
    /\ watchPc = "sleep"
    /\ now + dt <= wake
    /\ now + dt <= MaxTime

\* No pending alarm is passed.
PosixMayWait(dt) ==
    /\ alarmAt = NoAlarm \/ now + dt <= alarmAt
    /\ jumps < MaxJumps

Tick ==
    /\ alive
    /\ pc = "idle"
    /\ destructPc = "idle"
    /\ \E dt \in Jumps :
        /\ IF engine = "windows" THEN WindowsMayWait(dt) ELSE PosixMayWait(dt)
        /\ now' = now + dt
        /\ lateArg' = (lateArg \/ now + dt - lastReturn >= duration)
        /\ lateInt' = (lateInt \/ now + dt - lastReturn >= Ticks(_duration))
    /\ jumps' = IF engine = "posix" THEN jumps + 1 ELSE jumps
    /\ UNCHANGED << argVars, posixInits, pc, exception, engine, _duration, winVars, posixVars, killVars,
                    resets, lastReturn, resetLog, lastMem, access >>

-----------------------------------------------------------------------------
\* The program: new_watchdog is called once, then the owner calls reset() at will.

Next ==
    \/ WindowsInit
    \/ WindowsStart
    \/ PosixInit
    \/ WinResetAcquire
    \/ WinResetWrite
    \/ WinResetRelease
    \/ WatchReadTime
    \/ WatchCompare
    \/ WatchWake
    \/ DestructLog
    \/ DestructKill
    \/ Tick

Spec == Init /\ [][Next]_vars

\* Both engines: the program above, and the methods of WatchdogPosix on an instance
\* holding the fields its __init__ assigns.
InitEngines == Init \/ InitPosix

NextEngines ==
    \/ Next
    \/ PosixReset
    \/ AlarmFire

SpecEngines == InitEngines /\ [][NextEngines]_vars

-----------------------------------------------------------------------------
\* Properties.

Last(q) == q[Len(q)]

\* Number of the owner's reset() calls in the 60 seconds up to the last one, itself included.
RecentResets ==
    Cardinality({i \in 1..Len(resetLog) :
                    resetLog[i] >= Last(resetLog) - Ticks(_RESTART_TIMEFRAME)})

\* Longest time the polling thread lets pass between two checks.
PollSlack == Max(SleepTicks(_duration, intDivision), 1)

\* C1: a timer-driven watchdog constructed with duration d > 0 and never reset
\* has terminated the process once d has passed since construction.
C1_UnresetIsKilledAtDuration ==
    (engine = "posix" /\ resets = 0 /\ now > duration) => ~alive

\* C2: on either engine the deadline terminates the process only if at some moment
\* the time since the last reset() (or construction) had reached the duration passed.
C2_KilledOnlyPastDuration ==
    cause = "deadline" => lateArg

\* C2, amended: on either engine the deadline terminates the process only if at some
\* moment the time since the last reset() (or construction) had reached the duration
\* truncated to whole seconds.
C2_KilledOnlyPastTruncatedDuration ==
    cause = "deadline" => lateInt

\* Resets at a cadence below the stored duration have carried the process past the
\* first deadline.
C2_Witness ==
    /\ alive
    /\ _duration >= 1
    /\ resets >= 2
    /\ ~lateInt
    /\ now > Ticks(_duration) + PollSlack

C4_KilledBetweenDurationAndPoll ==
    (engine = "windows" /\ resets = 0) =>
        /\ PollDivisor * now <= (PollDivisor + 1) * duration
        /\ ~alive => now >= duration

\* C4, amended: with a stored duration D of at least one second, a polling watchdog
\* that is never reset terminates the process no earlier than D and no later than
\* D + D/20 seconds after construction.
C4_KilledBetweenTruncatedDurationAndPoll ==
    (engine = "windows" /\ resets = 0 /\ _duration >= 1) =>
        /\ PollDivisor * now <= (PollDivisor + 1) * Ticks(_duration)
        /\ ~alive => now >= Ticks(_duration)

\* Never reset, the process is killed one poll period after the deadline.
C4_Witness ==
    /\ engine = "windows"
    /\ resets = 0
    /\ _duration >= 1
    /\ ~alive
    /\ cause = "deadline"
    /\ PollDivisor * now = (PollDivisor + 1) * Ticks(_duration)

\* C5: with a cap N >= 1, a reset() terminates the process for frenetic activity
\* exactly when it is at least the (N+1)th reset() of the last 60 seconds.
C5_CapExceededExactlyAtNPlusOne ==
    (engine = "posix" /\ max_resets >= 1 /\ resetLog # << >> /\ cause # "memory") =>
        (cause = "frenetic" <=> RecentResets > max_resets)

\* The third reset() within 60 seconds under a cap of 2 has killed the process.
C5_Witness ==
    /\ engine = "posix"
    /\ max_resets = 2
    /\ Len(resetLog) = 3
    /\ cause = "frenetic"
    /\ ~alive

\* C6: with a ceiling of M MB, the reset() that observes u kB resident terminates
\* the process for memory exactly when u exceeds 95 % of M * 1024 kB; with no
\* ceiling no reset() terminates it for memory.
C6_MemoryKillIffAbove95Percent ==
    engine = "posix" =>
        /\ max_mem_mb = None => cause # "memory"
        /\ lastMem # None =>
            (cause = "memory" <=> 100 * lastMem > 95 * (1024 * max_mem_mb))

\* A reset() observing 96 % of the ceiling has killed the process.
C6_Witness ==
    /\ engine = "posix"
    /\ max_mem_mb = 25
    /\ lastMem = 24576
    /\ cause = "memory"
    /\ ~alive

\* C7: once new_watchdog has run on a non-Windows platform, no exception was raised,
\* a timer-driven engine exists and self_destruct is the SIGALRM handler.
C7_ConstructionInstallsHandler ==
    (platform = "posix" /\ pc # "start") =>
        /\ exception = "none"
        /\ engine = "posix"
        /\ sigHandler = "self_destruct"

\* C8: whenever a threshold was given, 0 included, the last reset() that reached the
\* activity check stands in the Activity Window, and the process is terminated for
\* frenetic activity exactly when the window holds more entries than the threshold.
C8_EveryThresholdIsChecked ==
    (engine = "posix" /\ max_resets # None /\ resetLog # << >> /\ cause # "memory") =>
        /\ _restarts # << >>
        /\ Last(_restarts) = Last(resetLog)
        /\ cause = "frenetic" <=> Len(_restarts) > max_resets

\* C9: when destruct / self_destruct is left, the kill has been issued, whether the
\* logging raised or not.
C9_DestructAlwaysKills ==
    destructPc = "done" => ~alive

\* The logging raised and the kill was issued all the same.
C9_Witness ==
    /\ destructPc = "done"
    /\ logFailed
    /\ ~alive

\* C10: every access to expire_at, the write of reset() and the read of watch(), is
\* made by a thread that holds tlock.
C10_DeadlineAccessHoldsLock ==
    access.locked

\* The Windows half of C11: once new_watchdog has run on Windows, the watchdog under
\* construction is the polling engine, it holds the truncated duration and nothing
\* of max_mem_mb or max_resets, and destruct is entered for the deadline alone.
C11_PollingEngineOnWindows ==
    (platform = "windows" /\ pc # "start") =>
        /\ engine \in {"none", "windows"}
        /\ engine = "none" <=> pc = "start_thread"
        /\ _duration = IntOf(duration)
        /\ expire_at # Unset
        /\ memory_limit_enabled = FALSE
        /\ _max_mem_kb = Unset
        /\ rlimit_as = None
        /\ _max_resets = None
        /\ _restarts = << >>
        /\ sigHandler = "SIG_DFL"
        /\ lastMem = None
        /\ cause \in {"none", "deadline"}

\* The other half of C11: once new_watchdog has run elsewhere, the watchdog is the
\* timer-driven engine, built from all three arguments.
C11_TimerEngineElsewhere ==
    (platform = "posix" /\ pc # "start") =>
        /\ engine = "posix"
        /\ _duration = PosixFields(duration, max_mem_mb, max_resets)._duration
        /\ memory_limit_enabled = (max_mem_mb # None)
        /\ _max_mem_kb = PosixFields(duration, max_mem_mb, max_resets)._max_mem_kb
        /\ _max_resets = max_resets

\* C11: new_watchdog builds the polling engine exactly on Windows, from the duration
\* alone, and the timer-driven engine from all three arguments otherwise; on the
\* polling engine destruct is reached through the deadline only.
C11_SelectionAndPollingLimits ==
    /\ C11_PollingEngineOnWindows
    /\ C11_TimerEngineElsewhere

\* On Windows, with a ceiling and a cap of 1 passed, the owner has reset three times
\* and lives on.
C11_PollingWitness ==
    /\ engine = "windows"
    /\ max_mem_mb = 25
    /\ max_resets = 1
    /\ resets = 3
    /\ pc = "idle"
    /\ alive
    /\ cause = "none"

\* C12: with a ceiling of M MB, the address-space limit installed at construction is
\* M * 1024 * 1024 bytes, the ceiling of the reset() check is M * 1024 kB, the two
\* are the same amount of memory, and the check kills exactly above 95 % of the
\* limit taken in kB.
C12_LimitAndCheckAgree ==
    (engine = "posix" /\ max_mem_mb # None) =>
        /\ memory_limit_enabled
        /\ rlimit_as = max_mem_mb * 1024 * 1024
        /\ _max_mem_kb = max_mem_mb * 1024
        /\ rlimit_as = 1024 * _max_mem_kb
        /\ lastMem # None =>
            (cause = "memory" <=> 100 * lastMem > 95 * (rlimit_as \div 1024))

\* A reset() has observed exactly 95 % of the 25 MB limit, in bytes, and has not killed.
C12_Witness ==
    /\ engine = "posix"
    /\ max_mem_mb = 25
    /\ rlimit_as = 26214400
    /\ lastMem = 24320
    /\ resets >= 1
    /\ cause # "memory"

\* A step that is one reset() call on the timer-driven engine.
IsPosixReset == engine = "posix" /\ resets' = resets + 1

\* C13: a reset() that detects a memory breach leaves the Activity Window and the
\* alarm as they were; one that detects frenetic activity leaves the alarm as it
\* was; one that passes both checks arms the alarm for duration seconds from now
\* (none when the duration is 0); and the memory verdict comes first.
C13_ResetStopsAtFirstViolation ==
    [][ IsPosixReset =>
          /\ cause' = "memory" => (_restarts' = _restarts /\ alarmAt' = alarmAt)
          /\ cause' = "frenetic" => alarmAt' = alarmAt
          /\ cause' = "none" =>
                alarmAt' = (IF _duration = 0 THEN NoAlarm ELSE now + Ticks(_duration))
          /\ (memory_limit_enabled /\ 100 * lastMem' > 95 * _max_mem_kb) => cause' = "memory"
      ]_vars

\* A second reset() met a memory breach: the window holds the first reset() only and
\* the alarm armed by the first reset() is still the pending one.
C13_Witness ==
    /\ engine = "posix"
    /\ cause = "memory"
    /\ Truthy(_max_resets)
    /\ _duration >= 1
    /\ Len(resetLog) = 2
    /\ resetLog[2] > resetLog[1]
    /\ _restarts = << resetLog[1] >>
    /\ alarmAt = resetLog[1] + Ticks(_duration)

\* The owner's reset() calls that are no older than 60 seconds at the last one, in
\* the order they were made.
RecentLog ==
    SelectSeq(resetLog,
              LAMBDA t : t >= Last(resetLog) - Ticks(_RESTART_TIMEFRAME))

\* The Activity Window is oldest first, holds no entry older than 60 seconds at the
\* time of the last reset(), and holds every recorded reset that is not older.
WindowIsTheLastSixtySeconds ==
    /\ \A i \in 1..Len(_restarts) : \A j \in i..Len(_restarts) :
            _restarts[i] <= _restarts[j]
    /\ \A i \in 1..Len(_restarts) :
            _restarts[i] >= Last(resetLog) - Ticks(_RESTART_TIMEFRAME)
    /\ _restarts = RecentLog

\* C14: after every reset() made with a cap configured (and not stopped by the
\* memory check), the Activity Window is oldest first, holds no entry older than 60
\* seconds at the time of the check, and holds every recorded reset not older.
C14_WindowAfterEveryCappedReset ==
    (engine = "posix" /\ _max_resets # None /\ resetLog # << >> /\ cause # "memory") =>
        WindowIsTheLastSixtySeconds

\* The part of C14 that the code keeps: the same after every reset() that ran the
\* frenetic check, which is every reset() made with a cap of at least 1.
C14_WindowAfterEveryFreneticCheck ==
    (engine = "posix" /\ Truthy(_max_resets) /\ resetLog # << >> /\ cause # "memory") =>
        WindowIsTheLastSixtySeconds

\* Three resets, more than 60 seconds between the first and the second: the first
\* has been evicted and the window holds the two others.
C14_EvictionWitness ==
    /\ engine = "posix"
    /\ Truthy(_max_resets)
    /\ alive
    /\ cause = "none"
    /\ Len(resetLog) = 3
    /\ resetLog[2] > resetLog[1] + Ticks(_RESTART_TIMEFRAME)
    /\ _restarts = << resetLog[2], resetLog[3] >>

-----------------------------------------------------------------------------
\* C15: constructing a second timer-driven instance in the same process does not fail;
\* after the second construction an instance exists, no exception has been raised and
\* the process-wide alarm handler is the self-destruct routine that all instances share.
\* Violated: the second construction raises AttributeError as the first did (C7).
C15_SecondConstructionDoesNotFail ==
    (platform = "posix" /\ posixInits >= 2) =>
        /\ exception = "none"
        /\ engine = "posix"
        /\ sigHandler = "self_destruct"

\* The second construction has been attempted.
C15_SecondConstructionAttempted == platform = "posix" /\ posixInits = 2 /\ pc = "raised"

-----------------------------------------------------------------------------
\* All consecutive recorded resets are exactly gap apart.
SpacedExactly(gap) ==
    \A i \in 1..(Len(resetLog) - 1) : resetLog[i + 1] - resetLog[i] = gap

\* C16: the 60-second window is closed at its old end. A reset made exactly 60 seconds
\* before the last frenetic check is still in the window; with cap N, resets spaced
\* exactly 60/N seconds apart kill the process at the (N+1)th, and resets whose
\* spacing is always strictly greater than 60/N seconds never do.
C16_WindowClosedAtOldEnd ==
    (engine = "posix" /\ Truthy(_max_resets) /\ resetLog # << >> /\ cause # "memory") =>
        /\ \A i \in 1..Len(resetLog) :
              resetLog[i] = Last(resetLog) - Ticks(_RESTART_TIMEFRAME) =>
                  \E j \in 1..Len(_restarts) : _restarts[j] = resetLog[i]
        /\ (/\ Len(resetLog) = _max_resets + 1
            /\ \E gap \in 1..Ticks(_RESTART_TIMEFRAME) :
                  /\ _max_resets * gap = Ticks(_RESTART_TIMEFRAME)
                  /\ SpacedExactly(gap))
              => (cause = "frenetic" /\ Len(_restarts) = _max_resets + 1)
        /\ (\A i \in 1..(Len(resetLog) - 1) :
              _max_resets * (resetLog[i + 1] - resetLog[i]) > Ticks(_RESTART_TIMEFRAME))
              => cause # "frenetic"

\* Under a cap of 2, three resets 30 seconds apart: the first is exactly 60 seconds old
\* at the third check, is still counted, and the process is killed.
C16_Witness ==
    /\ engine = "posix"
    /\ _max_resets = 2
    /\ resetLog = << 0, Ticks(_RESTART_TIMEFRAME) \div 2, Ticks(_RESTART_TIMEFRAME) >>
    /\ _restarts = resetLog
    /\ cause = "frenetic"

\* Under a cap of 1, two resets one tick more than 60 seconds apart: the first is
\* evicted and the process lives on.
C16_JustOverWitness ==
    /\ engine = "posix"
    /\ _max_resets = 1
    /\ resetLog = << 0, Ticks(_RESTART_TIMEFRAME) + 1 >>
    /\ _restarts = << Ticks(_RESTART_TIMEFRAME) + 1 >>
    /\ cause = "none"
    /\ alive

-----------------------------------------------------------------------------
\* The polling thread enters destruct() in this step.
WatchCallsDestruct == watchPc # "destruct" /\ watchPc' = "destruct"

\* C17: in the polling engine the constructor has set the deadline to now + the stored
\* duration before the polling thread is started, so the thread never finds expire_at
\* unset; and under every interleaving with reset() the thread enters destruct() only
\* when the time it read for its check is strictly greater than the deadline stored
\* at that moment.
C17_StartUpOrderAndNoSpuriousKill ==
    /\ [](pc = "start_thread" =>
            (watchPc = "unstarted" /\ expire_at = now + Ticks(_duration)))
    /\ [](watchPc # "unstarted" => expire_at # Unset)
    /\ [][WatchCallsDestruct =>
            /\ expire_at # Unset
            /\ tnow = now
            /\ tnow > expire_at
            /\ cause' = "deadline"]_vars

\* A check made exactly at the deadline, after a reset() moved it, has not killed: the
\* thread went back to sleep.
C17_Witness ==
    /\ engine = "windows"
    /\ _duration >= 1
    /\ resets >= 1
    /\ watchPc = "sleep"
    /\ access.by = "watch"
    /\ tnow = expire_at
    /\ now = tnow
    /\ alive
    /\ cause = "none"

-----------------------------------------------------------------------------
====
